---- MODULE Spec2Model ----
(***************************************************************************)
(* Model of pyorient.ogm.batch: the Batch script builder, its conditional  *)
(* branches (BatchBranch), the compile switch (BatchCompiler), the         *)
(* deferred script (CompiledBatch) and the batch variables.                *)
(*                                                                         *)
(* Text is modelled as a sequence of tokens whose concatenation is the     *)
(* Python string: keywords and separators are one token each, names are    *)
(* spelled character by character, "\n" is the line separator.             *)
(***************************************************************************)
EXTENDS Integers, Sequences, FiniteSets, TLC

(***************************************************************************)
(* Bounds of the model.                                                    *)
(***************************************************************************)
MaxLines == 4      \* lines of script text the builder may hold before an append
MaxDepth == 2      \* blocks the stack may hold
MaxCompilers == 1  \* BatchCompiler blocks open at once
MaxRun   == 2      \* longest response / run of records the client returns
MaxNest  == 3      \* blocks the stack may hold where branches are nested
MaxBranchLines == 6 \* lines of script text held where branches are nested
MaxVarLines == 3   \* lines of script text held where variables are bound and read
MaxCollectLines == 2 \* lines of script text held before a collect

(***************************************************************************)
(* Text helpers.                                                           *)
(***************************************************************************)
NoText == <<>>

RECURSIVE Join(_, _)
\* sep.join(parts)
Join(parts, sep) ==
  IF parts = <<>> THEN <<>>
  ELSE IF Len(parts) = 1 THEN parts[1]
  ELSE parts[1] \o sep \o Join(Tail(parts), sep)

RECURSIVE Lines(_)
\* text.split("\n")
Lines(text) ==
  IF \A i \in 1..Len(text) : text[i] # "\n" THEN <<text>>
  ELSE LET i == CHOOSE j \in 1..Len(text) :
                   text[j] = "\n" /\ \A k \in 1..(j-1) : text[k] # "\n"
       IN <<SubSeq(text, 1, i-1)>> \o Lines(SubSeq(text, i+1, Len(text)))

\* number of lines of text whose first token is word
CountLines(text, word) ==
  LET ls == Lines(text)
  IN Cardinality({i \in 1..Len(ls) : ls[i] # <<>> /\ ls[i][1] = word})

\* str(n) for the small integers used as retry counts and delays
IntText(n) == <<ToString(n)>>

(***************************************************************************)
(* Names, name cleaning (Batch.INVALID_CHARS, default_name_cleaner).       *)
(***************************************************************************)
Names == {<<"a">>, <<"a", "'">>}

\* string.punctuation without "_" plus string.whitespace, restricted to the
\* characters that occur in the model's texts
INVALID_CHARS == {"'", "\"", "$", "-", " ", "\n", "[", "]", "{", "}", "(", ")", ",", "=", ":"}

Digits == {"0", "1", "2", "3", "4", "5", "6", "7", "8", "9"}

\* re.sub(r'^\d|[<invalid>]', '_', name)
default_name_cleaner(name) ==
  [i \in 1..Len(name) |->
     IF name[i] \in INVALID_CHARS \/ (i = 1 /\ name[i] \in Digits)
     THEN "_" ELSE name[i]]

\* Batch.clean_name applied where the code applies it: the hook when one is
\* installed, the name itself otherwise
CleanName(hook, name) ==
  IF hook = "default_name_cleaner" THEN default_name_cleaner(name) ELSE name

\* repr(s) of a Python str: double quotes when s holds ' and no "
repr(s) ==
  IF (\E i \in 1..Len(s) : s[i] = "'") /\ (\A i \in 1..Len(s) : s[i] # "\"")
  THEN <<"\"">> \o s \o <<"\"">>
  ELSE <<"'">> \o s \o <<"'">>

(***************************************************************************)
(* Values that can be assigned, and the classes isinstance() tests.        *)
(***************************************************************************)
\* superclasses of the command classes imported from .commands
CommandBases(cls) ==
  CASE cls = "VertexCommand"     -> {"VertexCommand", "Command"}
    [] cls = "CreateEdgeCommand" -> {"CreateEdgeCommand", "Command"}
    [] cls = "RetrievalCommand"  -> {"RetrievalCommand", "Command"}
    [] cls = "CompiledBatch"     -> {"CompiledBatch", "RetrievalCommand", "Command"}
    [] cls = "Command"           -> {"Command"}
    [] OTHER                     -> {}

\* superclasses of the batch variable classes
VariableBases(cls) ==
  CASE cls = "BatchVariable"       -> {"BatchVariable"}
    [] cls = "BatchVertexVariable" -> {"BatchVertexVariable", "BatchVariable"}
    [] cls = "BatchEdgeVariable"   -> {"BatchEdgeVariable", "BatchVariable"}
    [] cls = "BatchQueryVariable"  -> {"BatchQueryVariable", "BatchVariable"}
    [] OTHER                       -> {}

isinstance(value, cls) == cls \in (CommandBases(value.cls) \cup VariableBases(value.cls))

VertexCmd    == [cls |-> "VertexCommand",     text |-> <<"CV">>]
EdgeCmd      == [cls |-> "CreateEdgeCommand", text |-> <<"CE">>]
QueryCmd     == [cls |-> "RetrievalCommand",  text |-> <<"Q">>]
UpdateCmd    == [cls |-> "Command",           text |-> <<"U">>]
Literal      == [cls |-> "int",               text |-> <<"7">>]
\* a query with a positional placeholder for the second-stage formatter
ParamCmd     == [cls |-> "RetrievalCommand",  text |-> <<"Q", "{", "}">>]
\* a str
Quoted       == [cls |-> "str",               text |-> <<"'x'">>]

\* a BatchVariable used as a value: its class and its reference text
VarValue(var) == [cls |-> var.type, text |-> var.id]

\* str(value) of a command
CommandText(value) == value.text

\* ArgConverter.convert_to(ArgConverter.Vertex, value, batch)
\* ArgConverter.convert_to(ArgConverter.Boolean, condition, batch)
convert_to(value) == value.text

(***************************************************************************)
(* State.                                                                  *)
(***************************************************************************)
VARIABLES
  stack,            \* Batch.stack: list of blocks, each a list of statements
  variables,        \* Batch.variables: name -> BatchVariable object
  compile,          \* Batch.compile
  isolation_level,  \* isolation_level given to Batch.__init__
  clean_name,       \* Batch.clean_name, the class-wide name cleaner hook
  scopes,           \* the with-blocks entered and not yet exited, innermost last
  cb,               \* the CompiledBatch the caller holds (most recent one)
  last              \* the last operation: its input, its outcome, the client call it made

vars == <<stack, variables, compile, isolation_level, clean_name, scopes, cb, last>>

READ_COMMITTED == 0
REPEATABLE_READ == 1

BeginStmt(level) ==
  IF level = REPEATABLE_READ THEN <<"BEGIN", " ISOLATION REPEATABLE_READ">> ELSE <<"BEGIN">>

\* results returned to the caller
NoneRes        == [t |-> "None", v |-> <<>>]
VarRes(var)    == [t |-> "variable", v |-> var]
CompiledRes    == [t |-> "CompiledBatch", v |-> <<>>]
\* g.elements_from_records(records, cache) and g.element_from_record(record, cache)
elements_from_records(records) == [t |-> "elements", v |-> records]
element_from_record(record)    == [t |-> "element", v |-> record]


\* what the executor closures capture
Executor(kind, returned, isq, order) ==
  [kind |-> kind, returned |-> returned, isq |-> isq, order |-> order]

NoExecutor == Executor("none", <<>>, FALSE, <<>>)

\* no CompiledBatch held yet
NoCB == [set |-> FALSE, compiled |-> NoText, formatted |-> [set |-> FALSE, text |-> NoText],
         exec |-> NoExecutor, gen |-> "none", raised |-> FALSE, args |-> <<>>]

\* CompiledBatch(compiled).set_executor(executor); `raised` records whether an
\* invocation of the executor has raised since, `args` the arguments of the
\* most recent format call with arguments that produced a text
NewCompiledBatch(text, exec) ==
  [set |-> TRUE, compiled |-> text, formatted |-> [set |-> FALSE, text |-> NoText],
   exec |-> exec, gen |-> "armed", raised |-> FALSE, args |-> <<>>]

\* the record of an operation
Event(op, arg, mode, err, res, called, sent, resp) ==
  [op |-> op, arg |-> arg, mode |-> mode, err |-> err, res |-> res,
   called |-> called, sent |-> sent, resp |-> resp]

Top(stk) == stk[Len(stk)]

\* stack[-1].append(stmt)
Append1(stk, stmt) == [stk EXCEPT ![Len(stk)] = Append(@, stmt)]

RECURSIVE SumLines(_)
SumLines(block) ==
  IF block = <<>> THEN 0 ELSE Len(Lines(Head(block))) + SumLines(Tail(block))

RECURSIVE Weight(_)
\* lines of text the stack holds, the measure MaxLines bounds
Weight(stk) == IF stk = <<>> THEN 0 ELSE SumLines(Head(stk)) + Weight(Tail(stk))

\* room for one more statement under a bound on the lines held, two lines
\* being reserved for the frame of every open branch
Room(stk, bound) == Weight(stk) + 2 * (Len(stk) - 1) < bound

\* identity of a newly allocated BatchVariable: one no live object has
LiveOids ==
  {variables[k].oid : k \in DOMAIN variables}
    \cup (IF last.res.t = "variable" THEN {last.res.v.oid} ELSE {})

FreshOid == CHOOSE n \in 1..(Cardinality(LiveOids) + 1) :
              n \notin LiveOids /\ \A m \in 1..(n-1) : m \in LiveOids

\* BatchVariable.__init__ / the constructors of its subclasses
NewVariable(type, reference, value, oid) ==
  [type |-> type, id |-> reference, value |-> value, oid |-> oid]

Init ==
  /\ isolation_level \in {READ_COMMITTED, REPEATABLE_READ}
  /\ stack = << <<BeginStmt(isolation_level)>> >>
  /\ variables = <<>>
  /\ compile \in BOOLEAN
  /\ clean_name = "None"
  /\ scopes = <<>>
  /\ cb = NoCB
  /\ last = Event("init", <<>>, compile, "none", NoneRes, 0, NoText, <<>>)

(***************************************************************************)
(* Batch.__setitem__                                                       *)
(***************************************************************************)
SliceKey == [slice |-> TRUE,  name |-> <<>>]
NameKey(name) == [slice |-> FALSE, name |-> name]

\* a __setitem__ that binds every value that is not a command as a plain variable
VarType_NoInherit(value) ==
  IF isinstance(value, "Command")
  THEN IF isinstance(value, "VertexCommand") THEN "BatchVertexVariable"
       ELSE IF isinstance(value, "CreateEdgeCommand") THEN "BatchEdgeVariable"
       ELSE IF isinstance(value, "RetrievalCommand") THEN "BatchQueryVariable"
       ELSE "BatchVariable"
  ELSE "BatchVariable"

\* the variable class __setitem__ picks for a value
VarType(value) ==
  IF isinstance(value, "Command")
  THEN IF isinstance(value, "VertexCommand") THEN "BatchVertexVariable"
       ELSE IF isinstance(value, "CreateEdgeCommand") THEN "BatchEdgeVariable"
       ELSE IF isinstance(value, "RetrievalCommand") THEN "BatchQueryVariable"
       ELSE "BatchVariable"
  ELSE IF isinstance(value, "BatchVariable") THEN value.cls
       ELSE "BatchVariable"

SetItemText(value) ==
  IF isinstance(value, "Command") THEN CommandText(value) ELSE convert_to(value)

SetItem(key, value) ==
  /\ IF key.slice
     THEN /\ stack' = Append1(stack, CommandText(value))
          /\ UNCHANGED variables
     ELSE LET k == CleanName(clean_name, key.name)
          IN /\ stack' = Append1(stack, <<"LET ">> \o k \o <<" = ">> \o SetItemText(value))
             /\ variables' =
                  [n \in DOMAIN variables \cup {k} |->
                     IF n = k
                     THEN NewVariable(VarType(value), <<"$">> \o k, value, FreshOid)
                     ELSE variables[n]]
  /\ last' = Event("setitem", [key |-> key, value |-> value], compile, "none", NoneRes, 0, NoText, <<>>)
  /\ UNCHANGED <<compile, isolation_level, clean_name, scopes, cb>>

(***************************************************************************)
(* Batch.sleep, Batch.clear, Batch.use_name_cleaner                        *)
(***************************************************************************)
Sleep(ms) ==
  /\ stack' = Append1(stack, <<"sleep ">> \o IntText(ms))
  /\ last' = Event("sleep", ms, compile, "none", NoneRes, 0, NoText, <<>>)
  /\ UNCHANGED <<variables, compile, isolation_level, clean_name, scopes, cb>>

\* a clear that empties the base block
ClearedStack_Empty(stk) == [stk EXCEPT ![1] = <<>>]

\* self.variables.clear(); self.stack[0] = self.stack[0][:1]
ClearedStack(stk) == [stk EXCEPT ![1] = SubSeq(@, 1, 1)]

Clear ==
  /\ variables' = <<>>
  /\ stack' = ClearedStack(stack)
  /\ last' = Event("clear", <<>>, compile, "none", NoneRes, 0, NoText, <<>>)
  /\ UNCHANGED <<compile, isolation_level, clean_name, scopes, cb>>

UseNameCleaner ==
  /\ clean_name = "None"
  /\ clean_name' = "default_name_cleaner"
  /\ last' = Event("use_name_cleaner", <<>>, compile, "none", NoneRes, 0, NoText, <<>>)
  /\ UNCHANGED <<stack, variables, compile, isolation_level, scopes, cb>>

(***************************************************************************)
(* BatchBranch (Batch.if_) and BatchCompiler                               *)
(***************************************************************************)
\* BatchBranch.IF and BatchBranch.FORMAT_IF, formatted with (condition, body)
IF_(cond, body) ==
  <<"if (">> \o cond \o <<") ", "{", "\n", "  ">> \o body \o <<"\n", "}">>

\* a FORMAT_IF whose braces are not escaped for the second-stage formatter
FORMAT_IF_Single(cond, body) ==
  <<"if (">> \o cond \o <<") ", "{", "\n", "  ">> \o body \o <<"\n", "}">>

FORMAT_IF(cond, body) ==
  <<"if (">> \o cond \o <<") ", "{", "{", "\n", "  ">> \o body \o <<"\n", "}", "}">>

Cond == [cls |-> "str", text |-> <<"c">>]

IfScope(cond)  == [kind |-> "if", cond |-> cond]
CompilerScope  == [kind |-> "compiler", cond |-> Cond]

\* BatchBranch.__enter__
IfEnter(cond) ==
  /\ stack' = Append(stack, <<>>)
  /\ scopes' = Append(scopes, IfScope(cond))
  /\ last' = Event("if_enter", cond, compile, "none", NoneRes, 0, NoText, <<>>)
  /\ UNCHANGED <<variables, compile, isolation_level, clean_name, cb>>

\* a __exit__ that appends the if statement without popping the nested block
BranchExit_NoPop(stk, cond, raised, compiling) ==
  LET inner == IF raised THEN Append1(stk, <<"ROLLBACK">>) ELSE stk
      body  == Join(Top(inner), <<"\n">>)
  IN Append1(inner, IF compiling THEN FORMAT_IF(convert_to(cond), body)
                    ELSE IF_(convert_to(cond), body))

\* a __exit__ that ignores the exception of the body
BranchExit_NoRollback(stk, cond, raised, compiling) ==
  LET body == Join(Top(stk), <<"\n">>)
  IN Append1(SubSeq(stk, 1, Len(stk) - 1),
             IF compiling THEN FORMAT_IF(convert_to(cond), body)
             ELSE IF_(convert_to(cond), body))

\* BatchBranch.__exit__; raised: the body ended with an exception
BranchExit(stk, cond, raised, compiling) ==
  LET inner  == IF raised THEN Append1(stk, <<"ROLLBACK">>) ELSE stk
      body   == Join(Top(inner), <<"\n">>)
      popped == SubSeq(inner, 1, Len(inner) - 1)
      text   == IF compiling THEN FORMAT_IF(convert_to(cond), body)
                ELSE IF_(convert_to(cond), body)
  IN Append1(popped, text)

IfExit(raised) ==
  /\ scopes # <<>>
  /\ scopes[Len(scopes)].kind = "if"
  /\ stack' = BranchExit(stack, scopes[Len(scopes)].cond, raised, compile)
  /\ scopes' = SubSeq(scopes, 1, Len(scopes) - 1)
  \* __exit__ returns True: the exception is suppressed
  /\ last' = Event("if_exit", raised, compile, "none", NoneRes, 0, NoText, <<>>)
  /\ UNCHANGED <<variables, compile, isolation_level, clean_name, cb>>

OpenCompilers == Cardinality({i \in 1..Len(scopes) : scopes[i].kind = "compiler"})

\* BatchCompiler.__enter__
CompilerEnter ==
  /\ compile' = TRUE
  /\ scopes' = Append(scopes, CompilerScope)
  /\ last' = Event("compiler_enter", <<>>, compile, "none", NoneRes, 0, NoText, <<>>)
  /\ UNCHANGED <<stack, variables, isolation_level, clean_name, cb>>

\* BatchCompiler.__exit__; it returns False: an exception of the body propagates
CompilerExit(raised) ==
  /\ scopes # <<>>
  /\ scopes[Len(scopes)].kind = "compiler"
  /\ compile' = FALSE
  /\ scopes' = SubSeq(scopes, 1, Len(scopes) - 1)
  /\ last' = Event("compiler_exit", raised, compile,
                   IF raised THEN "Exception" ELSE "none", NoneRes, 0, NoText, <<>>)
  /\ UNCHANGED <<stack, variables, isolation_level, clean_name, cb>>

(***************************************************************************)
(* str.format on a template: {{ and }} are escapes, {} takes the next      *)
(* positional argument, any other field is looked up by name.              *)
(***************************************************************************)
Formatted(text) == [err |-> "none", text |-> text]
FormatError(e)  == [err |-> e, text |-> NoText]

RECURSIVE format(_, _)
format(template, args) ==
  LET braces == {i \in 1..Len(template) : template[i] \in {"{", "}"}}
  IN IF braces = {} THEN Formatted(template)
     ELSE LET i    == CHOOSE k \in braces : \A j \in braces : k <= j
              c    == template[i]
              rest == SubSeq(template, i + 1, Len(template))
              \* the literal text before the brace, what the brace gives, and
              \* the rest of the template formatted
              Then(given, tail, a) ==
                LET r == format(tail, a)
                IN IF r.err = "none"
                   THEN Formatted(SubSeq(template, 1, i - 1) \o given \o r.text)
                   ELSE r
          IN IF c = "{"
             THEN IF rest # <<>> /\ Head(rest) = "{"
                  THEN Then(<<"{">>, Tail(rest), args)
                  ELSE IF \A k \in 1..Len(rest) : rest[k] # "}"
                  THEN FormatError("ValueError")
                  ELSE IF Head(rest) = "}"
                  THEN IF args = <<>> THEN FormatError("IndexError")
                       ELSE Then(Head(args), Tail(rest), Tail(args))
                  ELSE FormatError("KeyError")
             ELSE IF rest # <<>> /\ Head(rest) = "}"
                  THEN Then(<<"}">>, Tail(rest), args)
                  ELSE FormatError("ValueError")

(***************************************************************************)
(* Batch.return_string, copy_variable, the response handlers               *)
(***************************************************************************)
NoStep == -1     \* key.step is None
NoTarget      == [t |-> "None", s |-> <<>>]
StrT(s)       == [t |-> "str",  s |-> s]
ListT(names)  == [t |-> "list", s |-> names]

\* Python truth of key.start / key.stop / key.step
Truthy(target) == target.t # "None" /\ target.s # <<>>
StepTruthy(step) == step # NoStep /\ step # 0

PlainKey(s)              == [slice |-> FALSE, start |-> StrT(s), stop |-> <<>>, step |-> NoStep]
Slice(start, stop, step) == [slice |-> TRUE,  start |-> start,   stop |-> stop, step |-> step]

\* Batch.return_string(variables) for a str and for a list of names
return_string(hook, target) ==
  IF target.t = "str"
  THEN IF Head(target.s) = "$"
       THEN <<"$">> \o CleanName(hook, Tail(target.s))
       ELSE repr(target.s)
  ELSE <<"[">> \o Join([i \in 1..Len(target.s) |-> <<"$">> \o CleanName(hook, target.s[i])],
                       <<",">>) \o <<"]">>

\* a __copy__ that returns the object itself
copy_Self(var, oid) == var

\* BatchVariable.__copy__: a new object of the same class, reference and value
copy(var, oid) == NewVariable(var.type, var.id, var.value, oid)

\* a copy_variable that accepts a name with a leading digit
copy_variable_CharsOnly(hook, vs, name, oid) ==
  IF hook # "None"
  THEN IF CleanName(hook, name) \in DOMAIN vs
       THEN [err |-> "none", res |-> VarRes(copy(vs[CleanName(hook, name)], oid))]
       ELSE [err |-> "KeyError", res |-> NoneRes]
  ELSE IF \E i \in 1..Len(name) : name[i] \in INVALID_CHARS
       THEN [err |-> "ValueError", res |-> NoneRes]
       ELSE IF name \in DOMAIN vs
            THEN [err |-> "none", res |-> VarRes(copy(vs[name], oid))]
            ELSE [err |-> "KeyError", res |-> NoneRes]

\* copy_variable(name) inside __getitem__: [err, res]
copy_variable(hook, vs, name, oid) ==
  IF hook # "None"
  THEN IF CleanName(hook, name) \in DOMAIN vs
       THEN [err |-> "none", res |-> VarRes(copy(vs[CleanName(hook, name)], oid))]
       ELSE [err |-> "KeyError", res |-> NoneRes]
  ELSE IF (\E i \in 1..Len(name) : name[i] \in INVALID_CHARS) \/ name[1] \in Digits
       THEN [err |-> "ValueError", res |-> NoneRes]
       ELSE IF name \in DOMAIN vs
            THEN [err |-> "none", res |-> VarRes(copy(vs[name], oid))]
            ELSE [err |-> "KeyError", res |-> NoneRes]

\* memoized_query_response(variables): whether the returned variable is a
\* BatchQueryVariable, looked up under returned[1:] before the clear
IsQueryVariable(vs, returned) ==
  /\ Tail(returned) \in DOMAIN vs
  /\ vs[Tail(returned)].type = "BatchQueryVariable"

\* is_query_response(response)
is_query_response(isq, response) == Len(response) > 1 \/ isq

\* the handler make_batch_executor builds, applied to the client's response
BatchHandler(returned, isq, response) ==
  IF returned # <<>>
  THEN IF Head(returned) \in {"[", "{"}
       THEN IF response # <<>> THEN elements_from_records(response) ELSE NoneRes
       ELSE IF response # <<>>
            THEN IF is_query_response(isq, response)
                 THEN elements_from_records(response)
                 ELSE element_from_record(response[1])
            ELSE NoneRes
  ELSE NoneRes

(***************************************************************************)
(* Records of a response, and the decoder of Batch.collect                 *)
(***************************************************************************)
NoSize == -1     \* the record has no 'size' field
SizeRecord(n) == [size |-> n,      rid |-> 0]
DataRecord(r) == [size |-> NoSize, rid |-> r]

Min(a, b) == IF a < b THEN a ELSE b

\* a slice that starts one record early, at the size record
PySlice_FromSize(response, lo, hi) ==
  SubSeq(response, Min(lo - 1, Len(response)) + 1, Min(hi, Len(response)))

\* response[lo:hi] of Python, 0-based and clamped
PySlice(response, lo, hi) == SubSeq(response, Min(lo, Len(response)) + 1, Min(hi, Len(response)))

RECURSIVE collect_decode(_, _, _, _)
\* the loop of the inner collect(): order is the iteration order of the set
collect_decode(order, response, run_idx, collected) ==
  IF order = <<>> THEN [err |-> "none", res |-> [t |-> "dict", v |-> collected]]
  ELSE IF run_idx - 1 >= Len(response) THEN [err |-> "IndexError", res |-> NoneRes]
  ELSE IF response[run_idx].size = NoSize THEN [err |-> "KeyError", res |-> NoneRes]
  ELSE LET var        == Head(order)
           run_length == response[run_idx].size
           sentinel   == run_idx + run_length
           got        == elements_from_records(PySlice(response, run_idx, sentinel))
       IN collect_decode(Tail(order), response, sentinel + 1,
                         [n \in DOMAIN collected \cup {var} |->
                            IF n = var THEN got ELSE collected[n]])

(***************************************************************************)
(* Executors and CompiledBatch                                             *)
(***************************************************************************)
\* the executor applied to the response of its client call: [err, res]
RunExecutor(exec, response) ==
  CASE exec.kind = "getitem" ->
         [err |-> "none", res |-> BatchHandler(exec.returned, exec.isq, response)]
    [] exec.kind = "collect" -> collect_decode(exec.order, response, 1, <<>>)
    \* commit: executor() and None
    [] exec.kind = "commit" ->
         [err |-> "none",
          res |-> IF response = <<>> THEN [t |-> "records", v |-> response] ELSE NoneRes]

\* CompiledBatch.__str__: [err, text]
CompiledStr_Reformat(c) == format(c.compiled, <<>>)

CompiledStr(c) ==
  IF c.formatted.set THEN Formatted(c.formatted.text) ELSE format(c.compiled, <<>>)

\* a str(self) that joins the base block, not the active one
BatchStr_Base(stk) == Join(stk[1], <<"\n">>)

\* str(self) of the Batch
BatchStr(stk) == Join(Top(stk), <<"\n">>)

(***************************************************************************)
(* The tail shared by the commit-type operations: snapshot, clear, then    *)
(* run the executor (immediate) or arm a CompiledBatch (compile).          *)
(***************************************************************************)
Finalise(op, arg, stk, exec, response) ==
  LET text == BatchStr(stk)
  IN /\ stack' = ClearedStack(stk)
     /\ variables' = <<>>
     /\ IF compile
        THEN /\ cb' = NewCompiledBatch(text, exec)
             /\ last' = Event(op, arg, compile, "none", CompiledRes, 0, NoText, <<>>)
        ELSE LET r == RunExecutor(exec, response)
             IN /\ cb' = cb
                /\ last' = Event(op, arg, compile, r.err, r.res, 1, text, response)
     /\ UNCHANGED <<compile, isolation_level, clean_name, scopes>>

(***************************************************************************)
(* Batch.__getitem__                                                       *)
(***************************************************************************)
CommitLine(step) ==
  IF StepTruthy(step) THEN <<"COMMIT", " RETRY ">> \o IntText(step) ELSE <<"COMMIT">>

\* the statement __getitem__ appends for a committing key, and its `returned`
GetItemReturned(hook, key) ==
  IF ~key.slice \/ Truthy(key.start)
  THEN [set |-> TRUE, text |-> return_string(hook, key.start)]
  ELSE [set |-> FALSE, text |-> NoText]

GetItemStmt(hook, key) ==
  LET returned == GetItemReturned(hook, key)
  IN IF returned.set
     THEN CommitLine(IF key.slice THEN key.step ELSE NoStep)
            \o <<"\n", "RETURN ">> \o returned.text
     ELSE CommitLine(key.step)

\* the key is the no-commit syntax: a slice with a stop and no (truthy) step
IsReference(key) == key.slice /\ ~StepTruthy(key.step) /\ key.stop # <<>>

\* `returned` after the key is interpreted: None for a commit without target
ReturnedIsNone(key) == ~GetItemReturned(clean_name, key).set

GetItem(key, response) ==
  IF IsReference(key)
  THEN LET r == copy_variable(clean_name, variables, key.stop, FreshOid)
       IN /\ last' = Event("getitem", key, compile, r.err, r.res, 0, NoText, <<>>)
          /\ UNCHANGED <<stack, variables, compile, isolation_level, clean_name, scopes, cb>>
  ELSE LET appended == Append1(stack, GetItemStmt(clean_name, key))
           returned == GetItemReturned(clean_name, key)
       IN IF ReturnedIsNone(key)
          \* memoized_query_response evaluates returned[1:] with returned = None
          THEN /\ stack' = appended
               /\ last' = Event("getitem", key, compile, "TypeError", NoneRes, 0, NoText, <<>>)
               /\ UNCHANGED <<variables, compile, isolation_level, clean_name, scopes, cb>>
          ELSE Finalise("getitem", key, appended,
                        Executor("getitem", returned.text,
                                 IsQueryVariable(variables, returned.text), <<>>),
                        response)

(***************************************************************************)
(* Batch.collect                                                           *)
(***************************************************************************)
NoRetries == -1   \* retries is None

\* the orders in which a Python set of these names can be iterated
Orders(names) ==
  LET S == {names[i] : i \in 1..Len(names)}
      n == Cardinality(S)
  IN {o \in [1..n -> S] : \A i, j \in 1..n : i # j => o[i] # o[j]}

SizeProbe(var) == <<"LET ", "_">> \o var \o <<" = SELECT ", "$">> \o var \o <<".size() as size">>

CollectCommitLine(retries) ==
  IF retries # NoRetries THEN <<"COMMIT", " RETRY ">> \o IntText(retries) ELSE <<"COMMIT">>

CollectReturn(order, fetch) ==
  <<"RETURN ", "(SELECT expand(unionall(">>
    \o Join([i \in 1..Len(order) |-> <<"$", "_">> \o order[i] \o <<",", "$">> \o order[i]], <<",">>)
    \o <<"))">>
    \o (IF fetch # <<>> THEN <<" FETCHPLAN ">> \o fetch ELSE <<>>)
    \o <<")">>

\* a collect that probes the names in an order of its own
CollectStmts_OtherOrder(order, retries, fetch) ==
  [i \in 1..Len(order) |-> SizeProbe(order[Len(order) + 1 - i])]
    \o <<CollectCommitLine(retries), CollectReturn(order, fetch)>>

\* the statements collect appends to the active block
CollectStmts(order, retries, fetch) ==
  [i \in 1..Len(order) |-> SizeProbe(order[i])]
    \o <<CollectCommitLine(retries), CollectReturn(order, fetch)>>

Collect(names, retries, fetch, order, response) ==
  /\ order \in Orders(names)
  /\ Finalise("collect", [names |-> names, retries |-> retries, fetch |-> fetch, order |-> order],
              [stack EXCEPT ![Len(stack)] = @ \o CollectStmts(order, retries, fetch)],
              Executor("collect", <<>>, FALSE, order), response)

(***************************************************************************)
(* Batch.commit                                                            *)
(***************************************************************************)
Commit(retries, response) ==
  Finalise("commit", retries, Append1(stack, CommitLine(retries)),
              Executor("commit", <<>>, FALSE, <<>>), response)

(***************************************************************************)
(* CompiledBatch.execute                                                   *)
(***************************************************************************)
\* the generator of set_executor after the executor it called returned
\* (err = "none": it yields, and loops) or raised (the generator is finished)
Resume_StaysArmed(err) == "armed"

Resume(err) == IF err = "none" THEN "armed" ELSE "exhausted"

Execute(response) ==
  /\ cb.set
  /\ IF cb.gen # "armed"
     \* next() raises StopIteration, execute returns None
     THEN /\ cb' = cb
          /\ last' = Event("execute", <<>>, compile, "none", NoneRes, 0, NoText, <<>>)
     ELSE LET f == CompiledStr(cb)
          IN IF f.err # "none"
             THEN /\ cb' = [cb EXCEPT !.gen = Resume(f.err), !.raised = TRUE]
                  /\ last' = Event("execute", <<>>, compile, f.err, NoneRes, 0, NoText, <<>>)
             ELSE LET r == RunExecutor(cb.exec, response)
                  IN /\ cb' = [cb EXCEPT !.formatted = [set |-> TRUE, text |-> f.text],
                                         !.gen = Resume(r.err),
                                         !.raised = @ \/ r.err # "none"]
                     /\ last' = Event("execute", <<>>, compile, r.err, r.res, 1, f.text, response)
  /\ UNCHANGED <<stack, variables, compile, isolation_level, clean_name, scopes>>

(***************************************************************************)
(* CompiledBatch.format                                                    *)
(***************************************************************************)
\* CompiledBatch.FORMAT_ENCODER: the text of an argument
FORMAT_ENCODER(arg) == arg.text

TextRes(text) == [t |-> "str", v |-> text]

\* [encode(arg) for arg in args]
Encoded(args) == [i \in 1..Len(args) |-> FORMAT_ENCODER(args[i])]

\* format(*args); `_formatted is None` is "no text stored": a stored text
\* starts with the BEGIN line, so it is never empty
Format(args) ==
  /\ cb.set
  /\ IF ~cb.formatted.set \/ args # <<>>
     THEN LET f == format(cb.compiled, Encoded(args))
          IN IF f.err # "none"
             THEN /\ cb' = cb
                  /\ last' = Event("format", args, compile, f.err, NoneRes, 0, NoText, <<>>)
             ELSE /\ cb' = [cb EXCEPT !.formatted = [set |-> TRUE, text |-> f.text],
                                      !.args = IF args # <<>> THEN args ELSE @]
                  /\ last' = Event("format", args, compile, "none", TextRes(f.text), 0, NoText, <<>>)
     ELSE /\ cb' = cb
          /\ last' = Event("format", args, compile, "none", TextRes(cb.formatted.text),
                           0, NoText, <<>>)
  /\ UNCHANGED <<stack, variables, compile, isolation_level, clean_name, scopes>>

(***************************************************************************)
(* Inputs, environment and specification of the builder as a whole.        *)
(***************************************************************************)
\* responses of the client: up to MaxRun data records
DataResponses == {<<>>} \cup {[i \in 1..n |-> DataRecord(i)] : n \in 1..MaxRun}

NameA == <<"a">>
NameB == <<"b">>
RefA  == <<"$", "a">>

SetKeys   == {SliceKey, NameKey(NameA)}
SetValues == {VertexCmd, QueryCmd}
GetKeys   == {PlainKey(NameA), PlainKey(RefA),
              Slice(NoTarget, <<>>, NoStep), Slice(NoTarget, <<>>, 2),
              Slice(StrT(RefA), <<>>, NoStep), Slice(StrT(RefA), <<>>, 2),
              Slice(StrT(RefA), <<>>, 0),
              Slice(NoTarget, NameA, NoStep)}
Retries   == {NoRetries, 0, 2}

\* the caller drops what it holds: its reference to a CompiledBatch, or
\* what the client call of the last operation gave it
Discard ==
  /\ cb.set \/ last.called = 1
  /\ cb' = NoCB
  /\ last' = Event("discard", <<>>, compile, "none", NoneRes, 0, NoText, <<>>)
  /\ UNCHANGED <<stack, variables, compile, isolation_level, clean_name, scopes>>

\* Environment: the caller is done with a CompiledBatch (it executes it any
\* number of times, then drops it) before it uses the builder again.
Idle == ~cb.set

\* Environment: the caller has dropped what the last client call gave it
Settled == last.called = 0

Next ==
  \/ \E key \in SetKeys, value \in SetValues :
       Idle /\ Room(stack, MaxLines) /\ SetItem(key, value)
  \/ \E key \in GetKeys, response \in DataResponses :
       Idle /\ Room(stack, MaxLines) /\ GetItem(key, response)
  \/ \E retries \in Retries, response \in DataResponses :
       Idle /\ Room(stack, MaxLines) /\ Collect(<<NameA>>, retries, <<>>, <<NameA>>, response)
  \/ \E retries \in Retries, response \in DataResponses :
       Idle /\ Room(stack, MaxLines) /\ Commit(retries, response)
  \/ \E response \in DataResponses : Execute(response)
  \/ Discard
  \/ Idle /\ Clear
  \/ Idle /\ Room(stack, MaxLines) /\ Len(stack) < MaxDepth /\ IfEnter(Cond)
  \/ \E raised \in BOOLEAN : Idle /\ IfExit(raised)
  \/ Idle /\ OpenCompilers < MaxCompilers /\ CompilerEnter
  \/ \E raised \in BOOLEAN : Idle /\ CompilerExit(raised)

Spec == Init /\ [][Next]_vars

(***************************************************************************)
(* The builder used at top level only: assignments and commit-type         *)
(* operations, no conditional branch.                                      *)
(***************************************************************************)
NextTop ==
  \/ \E key \in SetKeys, value \in SetValues :
       Idle /\ Room(stack, MaxLines) /\ SetItem(key, value)
  \/ \E key \in GetKeys, response \in DataResponses :
       Idle /\ Room(stack, MaxLines) /\ GetItem(key, response)
  \/ \E retries \in Retries, response \in DataResponses :
       Idle /\ Room(stack, MaxLines) /\ Collect(<<NameA>>, retries, <<>>, <<NameA>>, response)
  \/ \E retries \in Retries, response \in DataResponses :
       Idle /\ Room(stack, MaxLines) /\ Commit(retries, response)
  \/ \E response \in DataResponses : Execute(response)
  \/ Discard
  \/ Idle /\ OpenCompilers < MaxCompilers /\ CompilerEnter
  \/ \E raised \in BOOLEAN : Idle /\ CompilerExit(raised)

SpecTop == Init /\ [][NextTop]_vars

(***************************************************************************)
(* Conditional branches nested in one another.  The bodies hold            *)
(* assignments, a clear, and a committing read-back without return target, *)
(* which fails in the body after it appended its COMMIT line.              *)
(***************************************************************************)
NextBranch ==
  \/ Room(stack, MaxBranchLines) /\ SetItem(NameKey(NameA), VertexCmd)
  \/ Room(stack, MaxBranchLines) /\ GetItem(Slice(NoTarget, <<>>, NoStep), <<>>)
  \/ Clear
  \/ Room(stack, MaxBranchLines) /\ Len(stack) < MaxNest /\ IfEnter(Cond)
  \/ \E raised \in BOOLEAN : IfExit(raised)
  \/ OpenCompilers < MaxCompilers /\ CompilerEnter
  \/ \E raised \in BOOLEAN : CompilerExit(raised)

SpecBranch == Init /\ [][NextBranch]_vars

(***************************************************************************)
(* Variables bound and read back at top level: every class of value, names *)
(* with and without forbidden characters, with and without the cleaner.    *)
(***************************************************************************)
Values == {VertexCmd, EdgeCmd, QueryCmd, UpdateCmd, Literal}

\* the bound variables, as values the caller can assign again
BoundValues == {VarValue(variables[k]) : k \in DOMAIN variables}

Ref(name) == <<"$">> \o name

ReferenceKeys == {Slice(start, name, NoStep) : start \in {NoTarget, StrT(RefA)}, name \in Names}

TargetKeys ==
  {PlainKey(name) : name \in Names}
    \cup {PlainKey(Ref(name)) : name \in Names}
    \cup {Slice(StrT(Ref(name)), <<>>, 2) : name \in Names}

NextVars ==
  \/ \E name \in Names, value \in Values \cup BoundValues :
       Idle /\ Room(stack, MaxVarLines) /\ SetItem(NameKey(name), value)
  \/ \E key \in ReferenceKeys : Idle /\ GetItem(key, <<>>)
  \/ \E key \in TargetKeys, response \in DataResponses :
       Idle /\ Room(stack, MaxVarLines) /\ GetItem(key, response)
  \/ \E response \in DataResponses : Execute(response)
  \/ Discard
  \/ Idle /\ Clear
  \/ Idle /\ UseNameCleaner

SpecVars == Init /\ [][NextVars]_vars

(***************************************************************************)
(* Collecting variables: the client answers with run-length-framed runs,   *)
(* or with a response that is not framed.                                  *)
(***************************************************************************)
\* the data records of the i-th run, of length n
Run(i, n) == [j \in 1..n |-> DataRecord(10 * i + j)]

RECURSIVE Frame(_, _)
\* the runs of lengths lens[i..], each after its size record
Frame(lens, i) ==
  IF i > Len(lens) THEN <<>>
  ELSE <<SizeRecord(lens[i])>> \o Run(i, lens[i]) \o Frame(lens, i + 1)

FramedResponses(k) == {Frame(lens, 1) : lens \in [1..k -> 0..MaxRun]}

Unframed == {<<>>, <<DataRecord(1)>>, <<SizeRecord(2), DataRecord(11)>>}

NameLists == {<<>>, <<NameA>>, <<NameA, NameB>>, <<NameA, NameA>>, <<NameB, NameA, NameB>>}
FetchPlans == {<<>>, <<"*:-1">>}

\* what the client answers to a collect over k names; in compile mode the
\* builder makes no client call, so there is no answer to choose
ClientResponses(k) == IF compile THEN {<<>>} ELSE FramedResponses(k) \cup Unframed

NextCollect ==
  \/ \E name \in {NameA, NameB} :
       Idle /\ Room(stack, MaxCollectLines) /\ SetItem(NameKey(name), QueryCmd)
  \/ \E names \in NameLists, retries \in Retries, fetch \in FetchPlans :
       \E order \in Orders(names) :
         \E response \in ClientResponses(Len(order)) :
           Idle /\ Settled /\ Collect(names, retries, fetch, order, response)
  \/ \E response \in FramedResponses(Len(cb.exec.order)) \cup Unframed : Execute(response)
  \/ Discard

SpecCollect == Init /\ [][NextCollect]_vars

(***************************************************************************)
(* BatchCompiler blocks nested in one another on one builder; the          *)
(* read-backs issued inside them name a return target.                     *)
(***************************************************************************)
MaxOpenCompilers == 2  \* BatchCompiler blocks open at once where they nest

NestedKeys == {PlainKey(RefA), Slice(StrT(RefA), <<>>, 2)}

NextNested ==
  \/ Idle /\ Room(stack, MaxLines) /\ SetItem(NameKey(NameA), VertexCmd)
  \/ \E key \in NestedKeys, response \in DataResponses :
       Idle /\ Settled /\ Room(stack, MaxLines) /\ GetItem(key, response)
  \/ \E retries \in Retries, response \in DataResponses :
       Idle /\ Settled /\ Room(stack, MaxLines)
         /\ Collect(<<NameA>>, retries, <<>>, <<NameA>>, response)
  \/ \E retries \in Retries, response \in DataResponses :
       Idle /\ Settled /\ Room(stack, MaxLines) /\ Commit(retries, response)
  \/ \E response \in DataResponses : Execute(response)
  \/ Discard
  \/ Idle /\ OpenCompilers < MaxOpenCompilers /\ CompilerEnter
  \/ \E raised \in BOOLEAN : Idle /\ CompilerExit(raised)

SpecNested == Init /\ [][NextNested]_vars

(***************************************************************************)
(* A CompiledBatch formatted and executed any number of times, in any      *)
(* order; the template may hold a placeholder for the formatter.           *)
(***************************************************************************)
MaxCompiledLines == 2  \* lines of script text held before a compiling commit

FormatArgs == {<<>>, <<Literal>>, <<Quoted>>}

NextCompiled ==
  \/ \E value \in {QueryCmd, ParamCmd} :
       Idle /\ Room(stack, MaxCompiledLines) /\ SetItem(NameKey(NameA), value)
  \/ \E response \in DataResponses :
       Idle /\ Settled /\ GetItem(PlainKey(RefA), response)
  \/ \E response \in DataResponses :
       Idle /\ Settled /\ Collect(<<NameA>>, NoRetries, <<>>, <<NameA>>, response)
  \/ \E response \in DataResponses :
       Idle /\ Settled /\ Commit(NoRetries, response)
  \/ \E response \in DataResponses : Execute(response)
  \/ \E args \in FormatArgs : Format(args)
  \/ Discard

SpecCompiled == Init /\ [][NextCompiled]_vars

(***************************************************************************)
(* Names as the caller spells them: well formed, with a forbidden          *)
(* character, with a leading digit; assigned and read back without commit. *)
(***************************************************************************)
MaxNameLines == 3  \* lines of script text held where names are assigned

SpelledNames == {<<"a">>, <<"a", "'">>, <<"1", "a">>}

\* batch[:name] for each spelling: a read of the variable without commit
SpelledReads == {Slice(NoTarget, name, NoStep) : name \in SpelledNames}

NextNames ==
  \/ \E name \in SpelledNames :
       Room(stack, MaxNameLines) /\ SetItem(NameKey(name), VertexCmd)
  \/ \E key \in SpelledReads : GetItem(key, <<>>)
  \/ Clear
  \/ UseNameCleaner

SpecNames == Init /\ [][NextNames]_vars

(***************************************************************************)
(* The life of one builder: assignments, sleeps, branches, clears and      *)
(* commit-type operations in any order, at top level and inside branches.  *)
(***************************************************************************)
MaxLifeLines == 4  \* lines of script text held over the life of a builder
MaxLifeDepth == 2  \* blocks the stack may hold over the life of a builder

LifeKeys == {Slice(NoTarget, <<>>, NoStep), PlainKey(RefA), Slice(StrT(RefA), <<>>, 2)}
LifeResponses == {<<>>, <<DataRecord(1)>>}

NextLife ==
  \/ Idle /\ Room(stack, MaxLifeLines) /\ SetItem(NameKey(NameA), VertexCmd)
  \/ Idle /\ Room(stack, MaxLifeLines) /\ Sleep(5)
  \/ Idle /\ Room(stack, MaxLifeLines) /\ Len(stack) < MaxLifeDepth /\ IfEnter(Cond)
  \/ \E raised \in BOOLEAN : Idle /\ IfExit(raised)
  \/ Idle /\ Clear
  \/ \E key \in LifeKeys, response \in LifeResponses :
       Idle /\ Settled /\ Room(stack, MaxLifeLines) /\ GetItem(key, response)
  \/ \E response \in LifeResponses :
       Idle /\ Settled /\ Room(stack, MaxLifeLines)
         /\ Collect(<<NameA>>, NoRetries, <<>>, <<NameA>>, response)
  \/ \E retries \in {NoRetries, 2}, response \in LifeResponses :
       Idle /\ Settled /\ Room(stack, MaxLifeLines) /\ Commit(retries, response)
  \/ \E response \in LifeResponses : Execute(response)
  \/ Discard

SpecLife == Init /\ [][NextLife]_vars

(***************************************************************************)
(* A CompiledBatch held while the builder that returned it is used again:  *)
(* the caller compiles inside a BatchCompiler block, keeps the result,     *)
(* and goes on assigning, branching, clearing and committing.              *)
(***************************************************************************)
MaxSnapshotLines == 4  \* lines of script text held while a CompiledBatch is kept

NextSnapshot ==
  \/ Room(stack, MaxSnapshotLines) /\ SetItem(NameKey(NameA), VertexCmd)
  \/ Room(stack, MaxSnapshotLines) /\ Len(stack) < MaxDepth /\ IfEnter(Cond)
  \/ \E raised \in BOOLEAN : IfExit(raised)
  \/ Clear
  \/ \E response \in LifeResponses :
       Settled /\ Room(stack, MaxSnapshotLines) /\ GetItem(PlainKey(RefA), response)
  \/ \E response \in LifeResponses :
       Settled /\ Room(stack, MaxSnapshotLines)
         /\ Collect(<<NameA>>, NoRetries, <<>>, <<NameA>>, response)
  \/ \E response \in LifeResponses :
       Settled /\ Room(stack, MaxSnapshotLines) /\ Commit(NoRetries, response)
  \/ \E response \in LifeResponses : Execute(response)
  \/ Discard
  \/ OpenCompilers < MaxCompilers /\ CompilerEnter
  \/ \E raised \in BOOLEAN : CompilerExit(raised)

SpecSnapshot == Init /\ [][NextSnapshot]_vars

(***************************************************************************)
(* A script of assignments and nested branches built in one mode; the      *)
(* values assigned are commands with and without a formatter placeholder.  *)
(***************************************************************************)
MaxTwinLines == 7  \* lines of script text held where the two modes are compared
MaxTwinDepth == 3  \* blocks the stack may hold where the two modes are compared

NextTwin ==
  \/ \E value \in {VertexCmd, ParamCmd} :
       Room(stack, MaxTwinLines) /\ SetItem(NameKey(NameA), value)
  \/ Room(stack, MaxTwinLines) /\ Len(stack) < MaxTwinDepth /\ IfEnter(Cond)
  \/ \E raised \in BOOLEAN : IfExit(raised)

SpecTwin == Init /\ [][NextTwin]_vars

(***************************************************************************)
(* Properties.                                                             *)
(***************************************************************************)
\* the key of a committing read-back without return target: a slice whose
\* start and stop are absent
IsNoTargetCommit(key) == key.slice /\ key.start.t = "None" /\ key.stop = <<>>

\* the operation the event records is a commit-type operation
IsCommitType(ev) ==
  \/ ev.op \in {"collect", "commit"}
  \/ ev.op = "getitem" /\ ~IsReference(ev.arg)

LastLine(text) == Lines(text)[Len(Lines(text))]

\* C1: a committing read-back without return target, in immediate mode,
\* completes without error, hands the script to the client exactly once,
\* discards the response, and the finalize line it appended is COMMIT (step
\* absent) or COMMIT RETRY <step> (step present).
C1_NoTargetCommitCompletes ==
  (last.op = "getitem" /\ IsNoTargetCommit(last.arg) /\ ~last.mode) =>
     /\ last.err = "none"
     /\ last.called = 1
     /\ last.res = NoneRes
     /\ LastLine(last.sent) =
          (IF last.arg.step = NoStep THEN <<"COMMIT">>
           ELSE <<"COMMIT", " RETRY ">> \o IntText(last.arg.step))

\* C2: after every commit-type operation issued at top level the variable
\* map is empty and the base block holds exactly the BEGIN statement.
C2_CommitLeavesBuilderCleared ==
  (IsCommitType(last) /\ Len(stack) = 1) =>
     /\ variables = <<>>
     /\ stack = << <<BeginStmt(isolation_level)>> >>

\* C3: every script handed to the client by a builder used for top-level
\* assignments and commit-type operations starts with the BEGIN line, has no
\* other BEGIN line, and has exactly one COMMIT line.
C3_OneBeginOneCommit ==
  (last.called = 1) =>
     /\ Head(Head(Lines(last.sent))) = "BEGIN"
     /\ CountLines(last.sent, "BEGIN") = 1
     /\ CountLines(last.sent, "COMMIT") = 1

\* the text of a branch: single braces in immediate mode, doubled (escaped
\* for the second-stage formatter) in compile mode
BranchText(cond, body, compiling) ==
  <<"if (">> \o cond \o <<") ">> \o (IF compiling THEN <<"{", "{">> ELSE <<"{">>)
    \o <<"\n", "  ">> \o body \o <<"\n">> \o (IF compiling THEN <<"}", "}">> ELSE <<"}">>)

\* the stack after a branch exit: the nested block is gone, the parent block
\* has one more statement, text, and no other block has changed
ExitedWith(text) ==
  /\ Len(stack') = Len(stack) - 1
  /\ stack'[Len(stack) - 1] = Append(stack[Len(stack) - 1], text)
  /\ \A i \in 1..(Len(stack) - 2) : stack'[i] = stack[i]
  /\ variables' = variables

\* C7: the exit of a branch whose body completed without error appends to
\* the parent block exactly one statement, the if text over the statements
\* of the body in order, changes nothing else and restores the stack depth,
\* at every nesting depth.
C7_ExitAppendsOneIf ==
  [][(last'.op = "if_exit" /\ last'.arg = FALSE) =>
       ExitedWith(BranchText(scopes[Len(scopes)].cond.text,
                             Join(stack[Len(stack)], <<"\n">>), compile))]_vars

\* a branch nested in another branch was exited without error, with a
\* statement in its body
C7_Witness ==
  /\ last.op = "if_exit" /\ last.arg = FALSE
  /\ Len(stack) >= 2
  /\ \E i \in 1..Len(Top(stack)) : \E j \in 1..Len(Top(stack)[i]) : Top(stack)[i][j] = "LET "

\* C8: the exit of a branch whose body raised appends ROLLBACK after the
\* statements of the body, appends to the parent block exactly one if
\* statement over them, restores the stack depth and suppresses the error;
\* with an empty body the statement is `if (<cond>) {\n  ROLLBACK\n}` (with
\* the braces doubled in compile mode, which the formatter makes single).
C8_RaisedExitAppendsRollback ==
  [][(last'.op = "if_exit" /\ last'.arg = TRUE) =>
       LET cond == scopes[Len(scopes)].cond.text
           body == stack[Len(stack)]
           stmt == stack'[Len(stack')][Len(stack'[Len(stack')])]
           only == <<"if (">> \o cond \o <<") ", "{", "\n", "  ", "ROLLBACK", "\n", "}">>
       IN /\ ExitedWith(BranchText(cond, Join(body \o <<<<"ROLLBACK">>>>, <<"\n">>), compile))
          /\ last'.err = "none"
          /\ (body = <<>> /\ ~compile) => stmt = only
          /\ (body = <<>> /\ compile) => format(stmt, <<>>) = Formatted(only)]_vars

\* a branch was exited by an exception raised after a statement was appended
C8_Witness ==
  /\ last.op = "if_exit" /\ last.arg = TRUE
  /\ LET stmt == Top(stack)[Len(Top(stack))]
     IN /\ \E j \in 1..Len(stmt) : stmt[j] = "LET "
        /\ \E j \in 1..Len(stmt) : stmt[j] = "ROLLBACK"

\* a name the dialect accepts as it is
WellFormed(name) ==
  /\ name # <<>>
  /\ \A i \in 1..Len(name) : name[i] \notin INVALID_CHARS
  /\ name[1] \notin Digits

VariableClasses ==
  {"BatchVariable", "BatchVertexVariable", "BatchEdgeVariable", "BatchQueryVariable"}

\* the step assigns a value to a well-formed name and the next operation is
\* a no-commit read of that name
AssignThenRead ==
  /\ last.op = "setitem" /\ ~last.arg.key.slice /\ WellFormed(last.arg.key.name)
  /\ last'.op = "getitem" /\ IsReference(last'.arg) /\ last'.arg.step = NoStep
  /\ last'.arg.stop = last.arg.key.name

\* the kind by the class of the value, for the values that are commands or
\* literals
KindOfValue(value) ==
  CASE value.cls = "VertexCommand"                       -> "BatchVertexVariable"
    [] value.cls = "CreateEdgeCommand"                   -> "BatchEdgeVariable"
    [] value.cls \in {"RetrievalCommand", "CompiledBatch"} -> "BatchQueryVariable"
    [] OTHER                                             -> "BatchVariable"

\* C4 as stated: assign then read gives Vertex, Edge, QueryResult by the
\* class of the command, and Plain for every value that is not a command,
\* a bound Variable included.
C4_KindPlainForVariables ==
  [][(AssignThenRead /\ last.arg.value.cls # "Command") =>
       /\ last'.err = "none"
       /\ last'.res.t = "variable"
       /\ last'.res.v.type = KindOfValue(last.arg.value)]_vars

\* C4 amended: assign then read gives Vertex, Edge, QueryResult by the class
\* of the command, Plain for a value that is neither a command nor a
\* Variable, and the kind of the assigned Variable when the value is one.
C4_KindFollowsValue ==
  [][(AssignThenRead /\ last.arg.value.cls # "Command") =>
       /\ last'.err = "none"
       /\ last'.res.t = "variable"
       /\ last'.res.v.type =
            (IF last.arg.value.cls \in VariableClasses THEN last.arg.value.cls
             ELSE KindOfValue(last.arg.value))]_vars

\* a read just returned a variable that was bound to a Variable of a kind
\* other than Plain
C4_Witness ==
  /\ last.op = "getitem" /\ IsReference(last.arg) /\ last.err = "none"
  /\ last.res.v.value.cls \in VariableClasses \ {"BatchVariable"}
  /\ last.res.v.type = last.res.v.value.cls

TargetName(key) ==
  IF Head(key.start.s) = "$" THEN CleanName(clean_name, Tail(key.start.s)) ELSE key.start.s

\* C6: a committing read-back whose target names one bound variable, by a
\* plain key or by a sigil-prefixed reference, with a non-empty response:
\* the whole record set when the variable was a QueryResult, even for one
\* record; the single object when it was Vertex, Edge or Plain and the
\* response has one record.
C6_DecodingFollowsKind ==
  [][(/\ last'.op = "getitem" /\ ~IsReference(last'.arg) /\ ~last'.mode
      /\ last'.err = "none" /\ last'.arg.start.t = "str"
      /\ TargetName(last'.arg) \in DOMAIN variables
      /\ last'.resp # <<>>) =>
       LET kind == variables[TargetName(last'.arg)].type
       IN /\ kind = "BatchQueryVariable" => last'.res = elements_from_records(last'.resp)
          /\ (kind # "BatchQueryVariable" /\ Len(last'.resp) = 1) =>
                last'.res = element_from_record(last'.resp[1])]_vars

\* the names of a list, as a set
NameSet(names) == {names[i] : i \in 1..Len(names)}

\* C9: collect appends to the active block, in this order, one size probe
\* per distinct name, one COMMIT or COMMIT RETRY n line, and one RETURN line
\* whose unionall list pairs $_name,$name in the order of the probes, which
\* is the order the decoder uses.
C9_CollectEmitsProbesCommitReturn ==
  [][(last'.op = "collect") =>
       LET names == last'.arg.names
           o     == last'.arg.order
           n     == Cardinality(NameSet(names))
           text  == IF last'.mode THEN cb'.compiled ELSE last'.sent
           old   == Lines(BatchStr(stack))
           new   == Lines(text)
           list  == Join([i \in 1..n |-> <<"$", "_">> \o o[i] \o <<",", "$">> \o o[i]], <<",">>)
       IN /\ Len(o) = n /\ NameSet(o) = NameSet(names)
          /\ Len(new) = Len(old) + n + 2
          /\ SubSeq(new, 1, Len(old)) = old
          /\ \A i \in 1..n :
               new[Len(old) + i] =
                 <<"LET ", "_">> \o o[i] \o <<" = SELECT ", "$">> \o o[i] \o <<".size() as size">>
          /\ new[Len(old) + n + 1] =
               (IF last'.arg.retries = NoRetries THEN <<"COMMIT">>
                ELSE <<"COMMIT", " RETRY ", ToString(last'.arg.retries)>>)
          /\ LET ret == new[Len(old) + n + 2]
             IN /\ Head(ret) = "RETURN "
                /\ SubSeq(ret, 3, 2 + Len(list)) = list
                /\ Len(ret) > 2 + Len(list) /\ ret[3 + Len(list)] = "))"
          /\ last'.mode => cb'.exec.order = o]_vars

\* a collect over a list with a repeated name and two distinct names
C9_Witness ==
  /\ last.op = "collect"
  /\ Len(last.arg.names) = 3 /\ Len(last.arg.order) = 2

\* a run of the collect decoder: collect in immediate mode, or execute of
\* the CompiledBatch a collect returned
IsCollectRun ==
  /\ last.called = 1
  /\ \/ last.op = "collect"
     \/ last.op = "execute" /\ cb.exec.kind = "collect"

CollectOrder == IF last.op = "collect" THEN last.arg.order ELSE cb.exec.order

\* C10: for a response that is the concatenation of one run-length-framed
\* run per collected variable, in enumeration order, the decoder returns the
\* mapping from each name to exactly the data records of its own run.
C10_DecoderReturnsOwnRuns ==
  IsCollectRun =>
    \A lens \in [1..Len(CollectOrder) -> 0..MaxRun] :
      (last.resp = Frame(lens, 1)) =>
         /\ last.err = "none"
         /\ last.res.t = "dict"
         /\ DOMAIN last.res.v = NameSet(CollectOrder)
         /\ \A i \in 1..Len(CollectOrder) :
              last.res.v[CollectOrder[i]] = elements_from_records(Run(i, lens[i]))

\* two variables decoded, the first from an empty run, the second from a
\* run of two records
C10_Witness ==
  /\ IsCollectRun /\ last.err = "none" /\ Len(CollectOrder) = 2
  /\ last.res.v[CollectOrder[1]].v = <<>>
  /\ Len(last.res.v[CollectOrder[2]].v) = 2

\* the retry count the caller supplied to a commit-type operation: the step
\* of a range key, `retries` of collect and of commit (-1: none supplied)
RetryCount(ev) ==
  CASE ev.op = "getitem" -> (IF ev.arg.slice THEN ev.arg.step ELSE NoStep)
    [] ev.op = "collect" -> ev.arg.retries
    [] OTHER             -> ev.arg

\* the last operation is a commit-type operation that took its snapshot of
\* the script: it called the client, or it returned a CompiledBatch
Snapshotted ==
  /\ IsCommitType(last)
  /\ IF last.mode THEN cb.set ELSE last.called = 1

SnapshotText == IF last.mode THEN cb.compiled ELSE last.sent

\* the COMMIT line the operation appended: the last one of the script
AppendedCommitLine(text) ==
  LET ls == Lines(text)
      at == {i \in 1..Len(ls) : ls[i] # <<>> /\ ls[i][1] = "COMMIT"}
  IN ls[CHOOSE i \in at : \A j \in at : j <= i]

\* C11: for every retry count n >= 0 supplied to a committing read-back, a
\* collect or a commit, the commit line appended is COMMIT RETRY n; it is
\* the plain COMMIT only when no retry count is supplied.
C11_RetryCountAlwaysEmitted ==
  Snapshotted =>
    AppendedCommitLine(SnapshotText) =
      (IF RetryCount(last) = NoRetries THEN <<"COMMIT">>
       ELSE <<"COMMIT", " RETRY ">> \o IntText(RetryCount(last)))

\* C12: at every point between the entry and the exit of a BatchCompiler
\* block, nested blocks included, a commit-type operation returns a
\* CompiledBatch and makes no client call.
C12_CompilesInsideCompilerBlock ==
  (IsCommitType(last) /\ OpenCompilers > 0) =>
     /\ last.res = CompiledRes
     /\ last.called = 0

\* C13: on a CompiledBatch with its executor set, an execute() while no
\* invocation of the executor has raised invokes the executor once (one
\* client call at most, none when the text cannot be produced) and returns
\* its result or fails with its error; after an invocation has raised, every
\* execute() returns None without error and without a client call.
C13_ExecuteOnceThenNullForever ==
  [][(last'.op = "execute" /\ cb.set) =>
       IF cb.raised
       THEN /\ last'.res = NoneRes /\ last'.err = "none" /\ last'.called = 0
            /\ cb'.raised
       ELSE LET f == CompiledStr(cb)
            IN IF f.err # "none"
               THEN /\ last'.err = f.err /\ last'.called = 0
                    /\ cb'.raised
               ELSE LET r == RunExecutor(cb.exec, last'.resp)
                    IN /\ last'.called = 1
                       /\ last'.err = r.err /\ last'.res = r.res
                       /\ cb'.raised = (r.err # "none")]_vars

\* an execute() after an invocation of the executor raised: it gave None
\* and called nothing
C13_Witness ==
  /\ last.op = "execute" /\ cb.set /\ cb.raised
  /\ last.err = "none" /\ last.res = NoneRes /\ last.called = 0

\* C14: format with arguments recomputes the text from the template and
\* stores it; format without arguments returns a stored text unchanged; an
\* execute() hands to the client exactly the text of the most recent format
\* call with arguments, or the template formatted without arguments when
\* there was none, whatever the order of the format and execute calls.
C14_ExecuteSendsLatestFormat ==
  [][cb.set =>
       /\ (last'.op = "format" /\ last'.arg # <<>>) =>
            LET f == format(cb.compiled, Encoded(last'.arg))
            IN /\ last'.err = f.err
               /\ f.err = "none" =>
                    /\ cb'.formatted = [set |-> TRUE, text |-> f.text]
                    /\ last'.res = TextRes(f.text)
       /\ (last'.op = "format" /\ last'.arg = <<>> /\ cb.formatted.set) =>
            /\ cb' = cb
            /\ last'.err = "none" /\ last'.res = TextRes(cb.formatted.text)
       /\ (last'.op = "execute" /\ ~cb.raised) =>
            LET f == format(cb.compiled, Encoded(cb.args))
            IN IF f.err = "none"
               THEN last'.called = 1 /\ last'.sent = f.text
               ELSE last'.called = 0]_vars

\* an execute() sent the text formatted with the argument 'x', on a template
\* where another argument gives another text
C14_Witness ==
  /\ last.op = "execute" /\ last.called = 1
  /\ cb.args = <<Quoted>>
  /\ last.sent = format(cb.compiled, Encoded(<<Quoted>>)).text
  /\ last.sent # format(cb.compiled, Encoded(<<Literal>>)).text

\* C15: with no name cleaner installed, an assignment binds the name as it
\* is spelled; a no-commit read of a name with a forbidden character or a
\* leading digit fails with ValueError, bound or not; a no-commit read of a
\* well-formed name that is not bound fails with KeyError; both failures
\* leave the block stack and the variable map unchanged.
C15_InvalidNameRejectedOnRead ==
  [][clean_name = "None" =>
       /\ (last'.op = "setitem" /\ ~last'.arg.key.slice) =>
            LET name == last'.arg.key.name
            IN /\ last'.err = "none"
               /\ name \in DOMAIN variables'
               /\ variables'[name].id = <<"$">> \o name
               /\ Top(stack')[Len(Top(stack'))] =
                    <<"LET ">> \o name \o <<" = ">> \o last'.arg.value.text
       /\ (last'.op = "getitem" /\ IsReference(last'.arg)) =>
            LET name == last'.arg.stop
            IN /\ ~WellFormed(name) =>
                    /\ last'.err = "ValueError"
                    /\ stack' = stack /\ variables' = variables
               /\ (WellFormed(name) /\ name \notin DOMAIN variables) =>
                    /\ last'.err = "KeyError"
                    /\ stack' = stack /\ variables' = variables]_vars

\* a name with a leading digit was assigned with no cleaner installed, is
\* bound, and its no-commit read failed with ValueError
C15_Witness ==
  /\ clean_name = "None"
  /\ last.op = "getitem" /\ IsReference(last.arg)
  /\ last.arg.stop = <<"1", "a">>
  /\ <<"1", "a">> \in DOMAIN variables
  /\ last.err = "ValueError"

\* C16: in every state of the life of a builder the block stack has at
\* least one block and the first statement of the bottom block is the BEGIN
\* line of the isolation level given at construction: BEGIN ISOLATION
\* REPEATABLE_READ for REPEATABLE_READ, BEGIN otherwise.
C16_BottomBlockBeginsWithBegin ==
  /\ Len(stack) >= 1
  /\ stack[1] # <<>>
  /\ stack[1][1] = (IF isolation_level = REPEATABLE_READ
                    THEN <<"BEGIN", " ISOLATION REPEATABLE_READ">>
                    ELSE <<"BEGIN">>)

\* a commit-type operation took its snapshot inside an open branch of a
\* builder constructed with REPEATABLE_READ
C16_Witness ==
  /\ isolation_level = REPEATABLE_READ
  /\ Snapshotted
  /\ Len(stack) = 2

\* C17: after clear(), and after every commit-type operation that took its
\* snapshot, in whatever state it was called, an open branch included, the
\* variable map is empty and the block stack is the single base block
\* holding only the BEGIN statement.
C17_ClearResetsBuilder ==
  (last.op = "clear" \/ Snapshotted) =>
     /\ variables = <<>>
     /\ stack = << <<BeginStmt(isolation_level)>> >>

\* the first token of every line of text is one a finalize statement of a
\* commit-type operation starts with: a size probe, COMMIT, RETURN
FinalizeText(text) ==
  /\ text # <<>>
  /\ \A i \in 1..Len(Lines(text)) :
       LET line == Lines(text)[i]
       IN /\ line # <<>>
          /\ \/ line[1] \in {"COMMIT", "RETURN "}
             \/ Len(line) >= 2 /\ line[1] = "LET " /\ line[2] = "_"

\* text is the statements of block, in order, followed by finalize statements
SnapshotOf(text, block) ==
  IF block = <<>> THEN FinalizeText(text)
  ELSE LET body == Join(block, <<"\n">>)
       IN /\ Len(text) > Len(body) + 1
          /\ SubSeq(text, 1, Len(body)) = body
          /\ text[Len(body) + 1] = "\n"
          /\ FinalizeText(SubSeq(text, Len(body) + 2, Len(text)))

\* C18: the text a commit-type operation hands to the client, or keeps as
\* the template of the CompiledBatch it returns, is the statements of the
\* active block at the moment of the commit followed by the finalize
\* statements; no later operation on the builder changes the template of a
\* CompiledBatch already returned, and its execute() sends that template,
\* formatted.
C18_SnapshotBeforeClear ==
  [][/\ (IsCommitType(last') /\ last'.called = 1) =>
          SnapshotOf(last'.sent, Top(stack))
     /\ (IsCommitType(last') /\ last'.res = CompiledRes) =>
          SnapshotOf(cb'.compiled, Top(stack))
     /\ (cb.set /\ last'.op # "discard"
           /\ ~(IsCommitType(last') /\ last'.res = CompiledRes)) =>
          /\ cb'.set
          /\ cb'.compiled = cb.compiled
     /\ (last'.op = "execute" /\ last'.called = 1) =>
          last'.sent = format(cb.compiled, Encoded(cb.args)).text]_vars

\* an execute() sent the script of the CompiledBatch while the builder had
\* been given a later assignment
C18_Witness ==
  /\ last.op = "execute" /\ last.called = 1
  /\ last.sent = cb.compiled
  /\ CountLines(last.sent, "LET ") = 0
  /\ Len(Top(stack)) >= 1 /\ Top(stack)[Len(Top(stack))][1] = "LET "

\* what the second-stage formatter, given no argument, makes of a statement
Plain(stmt) == format(stmt, <<>>)

\* every statement the stack holds passes the formatter
Formats(stk) ==
  \A i \in 1..Len(stk) : \A k \in 1..Len(stk[i]) : Plain(stk[i][k]).err = "none"

\* the stack with every statement passed through the formatter
TwinStack(stk) ==
  [i \in 1..Len(stk) |-> [k \in 1..Len(stk[i]) |-> Plain(stk[i][k]).text]]

BraceFree(text) == \A i \in 1..Len(text) : text[i] \notin {"{", "}"}

\* the step is an assignment, a branch entry or a branch exit
IsBuildStep == last'.op \in {"setitem", "if_enter", "if_exit"}

\* the stack an immediate-mode builder holding TwinStack(stack) has after
\* the operation of this step
ImmediateStep ==
  CASE last'.op = "setitem" ->
         Append1(TwinStack(stack),
                 <<"LET ">> \o CleanName(clean_name, last'.arg.key.name) \o <<" = ">>
                   \o SetItemText(last'.arg.value))
    [] last'.op = "if_enter" -> Append(TwinStack(stack), <<>>)
    [] last'.op = "if_exit" ->
         BranchExit(TwinStack(stack), scopes[Len(scopes)].cond, last'.arg, FALSE)

\* after the step the compile-mode builder, passed through the formatter
\* statement by statement and as the script of its active block, is the
\* immediate-mode builder after the same operation
TwinsAgree ==
  /\ Formats(stack')
  /\ TwinStack(stack') = ImmediateStep
  /\ Plain(BatchStr(stack')) = Formatted(BatchStr(ImmediateStep))

IsCommitRun ==
  /\ last.called = 1
  /\ \/ last.op = "commit"
     \/ last.op = "execute" /\ cb.exec.kind = "commit"

\* C20: commit() yields no value: its result in immediate mode, and the
\* result of every execute() of the CompiledBatch it returns in compile
\* mode, is None for every response of the client, empty or not.
C20_CommitYieldsNone ==
  IsCommitRun => (last.err = "none" /\ last.res = NoneRes)

====
